---- MODULE Spec2Model ----
(***************************************************************************)
(* Model of dqnroute's ConveyorModel (src/dqnroute/conveyor_model.py).     *)
(*                                                                         *)
(* Numbers.  Positions, speeds and times are Python floats.  A position    *)
(* that is stored has been through round(., POS_ROUND_DIGITS), so it lies   *)
(* on the grid of multiples of 10^-5.  The model counts in sub-units:       *)
(* SubRes sub-units make one grid step, so a stored position is a multiple  *)
(* of SubRes while an argument or a displacement may fall between two grid  *)
(* points.  A value exactly half way between two grid points is rounded to  *)
(* either neighbour: which one Python's round() picks depends on the        *)
(* binary representation error of the float, e.g.                           *)
(*   round(0.00006 + 0.000005, 5) = 0.00007  (up)                           *)
(*   round(0.00007 + 0.000005, 5) = 0.00007  (down).                        *)
(*                                                                         *)
(* Exceptions.  A method is an operator from the model record `self` and    *)
(* the arguments to the set of its possible results; a result carries the   *)
(* model as the method leaves it (also when it raises), the exception       *)
(* class or "ok", the return value, the exception's arguments and the       *)
(* automaton transfers it attempted.                                        *)
(***************************************************************************)
EXTENDS Integers, Sequences, FiniteSets, TLC

\* ---------------------------------------------------------------- bounds
SubRes == 2          \* sub-units per grid step of 10^-5
Length == 2          \* conveyor length, in grid steps
MaxTime == 1         \* largest time argument
MaxObjs == 2         \* number of object ids

\* The constants of an instance, set once by the constructor (lines 72-76).
\* checkpoints is the list of (checkpoint, position) pairs as passed in.
VARIABLES length, max_speed, checkpoints

model_id == <<"world", 0>>

\* The event that stands for the end of the conveyor.
conv_end == <<"conv_end", -1>>

\* The constructor's arguments.  Main is a conveyor of Length grid steps whose
\* top speed covers one grid step per time unit (so the lower speeds displace
\* by less than a grid step), with one checkpoint on the grid, one grid step
\* in, and one off the grid, just before the end.  ScenarioA is the conveyor
\* of 10 units with checkpoint A at 3 and checkpoint B at 7, a unit being a
\* grid step and the top speed one unit per time unit.
Main ==
    [length |-> Length * SubRes,
     max_speed |-> SubRes,
     checkpoints |-> << <<(<<"junction", 1>>), SubRes>>,
                        <<(<<"junction", 2>>), Length * SubRes - 1>> >>]
ScenarioA ==
    [length |-> 10 * SubRes,
     max_speed |-> SubRes,
     checkpoints |-> << <<(<<"A", 0>>), 3 * SubRes>>,
                        <<(<<"B", 0>>), 7 * SubRes>> >>]
IsScenarioA == length = ScenarioA.length

\* The arguments of the calls.  The payload is opaque to the model, which
\* never inspects it: every object id comes with its own payload.  On
\* ScenarioA the calls take the scenario's values: positions before the start,
\* at the start and at the end, the speeds 0 and 1, the times 0 and 3.
ObjIds == 1..MaxObjs
Payload(obj_id) == <<"obj", obj_id>>
PosMin == 0 - SubRes
PosMax == length + SubRes
PosArgs == IF IsScenarioA THEN {PosMin, 0, length} ELSE PosMin..PosMax
SpeedArgs == IF IsScenarioA THEN {0, max_speed, max_speed + 1} ELSE 0..(max_speed + 1)
TimeArgs == IF IsScenarioA THEN {0, 3} ELSE 0..MaxTime
SkipArgs == IF IsScenarioA THEN {-3, 0, 3} ELSE (0 - MaxTime)..MaxTime
CpIds == {checkpoints[i][1] : i \in 1..Len(checkpoints)}
\* A filter is left None or is a collection of ids: the empty one, one id, or
\* all the ids but one.
None == <<>>
Filters(S) == {None, <<{}>>} \cup {<<{x}>> : x \in S} \cup {<<S \ {x}>> : x \in S}
ObjFilters == Filters(ObjIds)
CpFilters == Filters(CpIds)
\* The filters of the calls the model makes: none, or one object id.
ObjFilterArgs == {None} \cup {<<{x}>> : x \in ObjIds}
CpFilterArgs == {None}

States == {"pristine", "moving", "dirty", "resolving", "resolved"}
Actions == {"resume", "pause", "change", "start_resolving", "end_resolving"}

\* ------------------------------------------------------------- automaton
\* Mutant of _model_automata: a dirty model may resume.
automata_dirtyResumes ==
    [s \in States |->
        CASE s = "pristine"  -> ("resume" :> "moving") @@ ("change" :> "dirty")
          [] s = "moving"    -> ("pause" :> "pristine")
          [] s = "dirty"     -> ("change" :> "dirty") @@ ("start_resolving" :> "resolving")
                                   @@ ("resume" :> "moving")
          [] s = "resolving" -> ("change" :> "resolving") @@ ("end_resolving" :> "resolved")
          [] s = "resolved"  -> ("resume" :> "moving")]

_model_automata ==
    [s \in States |->
        CASE s = "pristine"  -> ("resume" :> "moving") @@ ("change" :> "dirty")
          [] s = "moving"    -> ("pause" :> "pristine")
          [] s = "dirty"     -> ("change" :> "dirty") @@ ("start_resolving" :> "resolving")
          [] s = "resolving" -> ("change" :> "resolving") @@ ("end_resolving" :> "resolved")
          [] s = "resolved"  -> ("resume" :> "moving")]

\* Mutant of _stateTransfer: an action the table does not list is ignored
\* instead of raising (a lookup with a default).
stateTransfer_ignoresUnknown(self, action) ==
    LET to == IF action \in DOMAIN _model_automata[self._state]
              THEN _model_automata[self._state][action]
              ELSE self._state
    IN  [self   |-> [self EXCEPT !._state = to],
         raised |-> FALSE,
         log    |-> <<[from |-> self._state, action |-> action, to |-> to, raised |-> FALSE]>>]

\* One attempted transfer: the state before, the action, the state after and
\* whether AutomataException was raised.
_stateTransfer(self, action) ==
    IF action \in DOMAIN _model_automata[self._state]
    THEN [self   |-> [self EXCEPT !._state = _model_automata[self._state][action]],
          raised |-> FALSE,
          log    |-> <<[from |-> self._state, action |-> action,
                        to |-> _model_automata[self._state][action], raised |-> FALSE]>>]
    ELSE [self   |-> self,
          raised |-> TRUE,
          log    |-> <<[from |-> self._state, action |-> action,
                        to |-> self._state, raised |-> TRUE]>>]

\* ------------------------------------------------------------- helpers
Abs(x) == IF x < 0 THEN 0 - x ELSE x

\* round(x, POS_ROUND_DIGITS): the possible results, in sub-units.
Round(x) ==
    LET r == x % SubRes
    IN  IF 2 * r < SubRes THEN {x - r}
        ELSE IF 2 * r > SubRes THEN {x - r + SubRes}
        ELSE {x - r, x - r + SubRes}

Result(self, out, ret, err, log) ==
    [self |-> self, out |-> out, ret |-> ret, err |-> err, log |-> log]

Pop(f, k) == [x \in (DOMAIN f) \ {k} |-> f[x]]

\* list.insert(idx, e) and list.pop(idx) with Python's 0-based index
Insert(ls, idx, e) == SubSeq(ls, 1, idx) \o <<e>> \o SubSeq(ls, idx + 1, Len(ls))
PopAt(ls, idx) == SubSeq(ls, 1, idx) \o SubSeq(ls, idx + 2, Len(ls))

\* search_pos(ls, pos, return_index=True), preference 'nearest': the 0-based
\* indices of the entries closest to pos; which of several equally close
\* entries is returned is left open.
search_pos(ls, pos) ==
    {i \in 0..(Len(ls) - 1) :
        \A j \in 0..(Len(ls) - 1) : Abs(ls[i + 1][2] - pos) <= Abs(ls[j + 1][2] - pos)}

\* ------------------------------------------------------------- methods
\* ConveyorModel.__init__: the variables of a freshly constructed model
init ==
    [_state |-> "pristine", _resume_time |-> 0, speed |-> 0,
     objects |-> <<>>, object_positions |-> <<>>]

\* Mutant of setSpeed: the range of the speed is not asserted.
setSpeed_unchecked(self, speed) ==
    IF self.speed # speed
    THEN LET t == _stateTransfer(self, "change")
         IN  IF t.raised
             THEN {Result(t.self, "AutomataException", <<>>, <<>>, t.log)}
             ELSE {Result([t.self EXCEPT !.speed = speed], "ok", <<>>, <<>>, t.log)}
    ELSE {Result(self, "ok", <<>>, <<>>, <<>>)}

\* Mutant of setSpeed: the change action is fired whether or not the speed differs.
setSpeed_alwaysChanges(self, speed) ==
    IF ~(speed >= 0 /\ speed <= max_speed)
    THEN {Result(self, "AssertionError", <<>>, <<>>, <<>>)}
    ELSE LET t == _stateTransfer(self, "change")
         IN  IF t.raised
             THEN {Result(t.self, "AutomataException", <<>>, <<>>, t.log)}
             ELSE {Result([t.self EXCEPT !.speed = speed], "ok", <<>>, <<>>, t.log)}

setSpeed(self, speed) ==
    IF ~(speed >= 0 /\ speed <= max_speed)
    THEN {Result(self, "AssertionError", <<>>, <<>>, <<>>)}
    ELSE IF self.speed # speed
    THEN LET t == _stateTransfer(self, "change")
         IN  IF t.raised
             THEN {Result(t.self, "AutomataException", <<>>, <<>>, t.log)}
             ELSE {Result([t.self EXCEPT !.speed = speed], "ok", <<>>, <<>>, t.log)}
    ELSE {Result(self, "ok", <<>>, <<>>, <<>>)}

\* Mutant of putRounded: the payload is registered before the collision check.
putRounded_registersFirst(self, obj_id, obj, pos) ==
    LET reg == [self EXCEPT !.objects = (obj_id :> obj) @@ self.objects]
        place(n_idx) ==
            LET put == [reg EXCEPT !.object_positions = Insert(self.object_positions, n_idx,
                                                               <<obj_id, pos>>)]
                t == _stateTransfer(put, "change")
            IN  Result(t.self, IF t.raised THEN "AutomataException" ELSE "ok",
                       <<>>, <<>>, t.log)
    IN  IF Cardinality(DOMAIN self.objects) > 0
        THEN {IF self.object_positions[i + 1][2] = pos
              THEN Result(reg, "CollisionException", <<>>,
                          <<obj, self.objects[self.object_positions[i + 1][1]], pos, model_id>>,
                          <<>>)
              ELSE IF self.object_positions[i + 1][2] < pos
              THEN place(i + 1)
              ELSE place(i) : i \in search_pos(self.object_positions, pos)}
        ELSE {place(0)}

\* The part of putObject after the position has been rounded (lines 117-128).
putRounded(self, obj_id, obj, pos) ==
    LET idxs == IF Cardinality(DOMAIN self.objects) > 0
                THEN search_pos(self.object_positions, pos)
                ELSE {}
        place(n_idx) ==
            LET put == [self EXCEPT !.objects = (obj_id :> obj) @@ self.objects,
                                    !.object_positions = Insert(self.object_positions, n_idx,
                                                                <<obj_id, pos>>)]
                t == _stateTransfer(put, "change")
            IN  Result(t.self, IF t.raised THEN "AutomataException" ELSE "ok",
                       <<>>, <<>>, t.log)
    IN  IF Cardinality(DOMAIN self.objects) > 0
        THEN {IF self.object_positions[i + 1][2] = pos
              THEN Result(self, "CollisionException", <<>>,
                          <<obj, self.objects[self.object_positions[i + 1][1]], pos, model_id>>,
                          <<>>)
              ELSE IF self.object_positions[i + 1][2] < pos
              THEN place(i + 1)
              ELSE place(i) : i \in idxs}
        ELSE {place(0)}

putObject(self, obj_id, obj, pos) ==
    IF obj_id \in DOMAIN self.objects
    THEN {Result(self, "AssertionError", <<>>, <<>>, <<>>)}
    ELSE UNION {putRounded(self, obj_id, obj, p) : p \in Round(pos)}

\* Mutant of removeObject: the last entry of object_positions is popped, not
\* the entry of obj_id.
removeObject_popsLast(self, obj_id) ==
    IF obj_id \notin {self.object_positions[k][1] : k \in 1..Len(self.object_positions)}
    THEN {Result(self, "TypeError", <<>>, <<>>, <<>>)}
    ELSE LET n == Len(self.object_positions)
             t == _stateTransfer([self EXCEPT !.object_positions = SubSeq(self.object_positions, 1, n - 1),
                                              !.objects = Pop(self.objects, obj_id)],
                                 "change")
         IN  {Result(t.self, IF t.raised THEN "AutomataException" ELSE "ok",
                     IF t.raised THEN <<>> ELSE <<self.objects[obj_id]>>,
                     <<>>, t.log)}

removeObject(self, obj_id) ==
    LET hits == {i \in 0..(Len(self.object_positions) - 1) :
                    self.object_positions[i + 1][1] = obj_id}
    IN  IF hits = {}
        THEN \* pos_idx stays None and list.pop(None) raises TypeError
             {Result(self, "TypeError", <<>>, <<>>, <<>>)}
        ELSE LET pos_idx == CHOOSE i \in hits : \A j \in hits : i <= j
                 popped == [self EXCEPT !.object_positions = PopAt(self.object_positions, pos_idx)]
             IN  IF obj_id \notin DOMAIN self.objects
                 THEN {Result(popped, "KeyError", <<>>, <<>>, <<>>)}
                 ELSE LET t == _stateTransfer([popped EXCEPT !.objects = Pop(self.objects, obj_id)],
                                              "change")
                      IN  {Result(t.self, IF t.raised THEN "AutomataException" ELSE "ok",
                                  IF t.raised THEN <<>> ELSE <<self.objects[obj_id]>>,
                                  <<>>, t.log)}

\* Mutant of dropFront: an object exactly at 0 is dropped as well.
RECURSIVE dropFront_dropsZero(_)
dropFront_dropsZero(self) ==
    IF Len(self.object_positions) > 0 /\ self.object_positions[1][2] <= 0
    THEN dropFront_dropsZero(
             [self EXCEPT !.object_positions = Tail(self.object_positions),
                          !.objects = Pop(self.objects, self.object_positions[1][1])])
    ELSE self

\* The two clean_ends loops of skipTime (lines 151-156).
RECURSIVE dropFront(_)
dropFront(self) ==
    IF Len(self.object_positions) > 0 /\ self.object_positions[1][2] < 0
    THEN dropFront([self EXCEPT !.object_positions = Tail(self.object_positions),
                                !.objects = Pop(self.objects, self.object_positions[1][1])])
    ELSE self

\* Mutant of dropBack: the entries are popped and their payloads are kept.
RECURSIVE dropBack_keepsPayload(_)
dropBack_keepsPayload(self) ==
    LET n == Len(self.object_positions)
    IN  IF n > 0 /\ self.object_positions[n][2] > length
        THEN dropBack_keepsPayload(
                 [self EXCEPT !.object_positions = SubSeq(self.object_positions, 1, n - 1)])
        ELSE self

RECURSIVE dropBack(_)
dropBack(self) ==
    LET n == Len(self.object_positions)
    IN  IF n > 0 /\ self.object_positions[n][2] > length
        THEN dropBack([self EXCEPT !.object_positions = SubSeq(self.object_positions, 1, n - 1),
                                   !.objects = Pop(self.objects, self.object_positions[n][1])])
        ELSE self

\* The displaced position lists (lines 146-148): every entry is rounded on
\* its own, and entries of one position, being one float displaced by one
\* float, are rounded alike.
RECURSIVE roundedEach(_, _)
roundedEach(ls, d) ==
    IF ls = <<>>
    THEN {<<>>}
    ELSE {<<<<ls[1][1], p>>>> \o rest : p \in Round(ls[1][2] + d), rest \in roundedEach(Tail(ls), d)}
displaced(ls, d) ==
    {nl \in roundedEach(ls, d) :
        \A i, j \in 1..Len(ls) : ls[i][2] = ls[j][2] => nl[i][2] = nl[j][2]}

\* Mutant of skipTime: a time of 0 is not returned from at once.
skipTime_skipsZero(self, time, clean_ends) ==
    {LET moved == [self EXCEPT !.object_positions = nl]
         cleaned == IF clean_ends THEN dropBack(dropFront(moved)) ELSE moved
         t == _stateTransfer(cleaned, "change")
     IN  Result(t.self, IF t.raised THEN "AutomataException" ELSE "ok",
                IF t.raised THEN <<>> ELSE <<time * self.speed>>, <<>>, t.log)
     : nl \in displaced(self.object_positions, time * self.speed)}

\* Mutant of skipTime: the change action is not fired.
skipTime_firesNothing(self, time, clean_ends) ==
    IF time = 0
    THEN {Result(self, "ok", <<0>>, <<>>, <<>>)}
    ELSE {Result(IF clean_ends THEN dropBack(dropFront([self EXCEPT !.object_positions = nl]))
                 ELSE [self EXCEPT !.object_positions = nl],
                 "ok", <<time * self.speed>>, <<>>, <<>>)
          : nl \in displaced(self.object_positions, time * self.speed)}

skipTime(self, time, clean_ends) ==
    IF time = 0
    THEN {Result(self, "ok", <<0>>, <<>>, <<>>)}
    ELSE LET d == time * self.speed
         IN  {LET moved == [self EXCEPT !.object_positions = nl]
                  cleaned == IF clean_ends THEN dropBack(dropFront(moved)) ELSE moved
                  t == _stateTransfer(cleaned, "change")
              IN  Result(t.self, IF t.raised THEN "AutomataException" ELSE "ok",
                         IF t.raised THEN <<>> ELSE <<d>>, <<>>, t.log)
              : nl \in displaced(self.object_positions, d)}

resume(self, time) ==
    LET t == _stateTransfer(self, "resume")
    IN  IF t.raised
        THEN {Result(t.self, "AutomataException", <<>>, <<>>, t.log)}
        ELSE {Result([t.self EXCEPT !._resume_time = time], "ok", <<>>, <<>>, t.log)}

\* Mutant of pause: the time of the call is skipped, not the time since resume.
pause_skipsCallTime(self, time) ==
    LET t == _stateTransfer(self, "pause")
        time_diff == time - self._resume_time
    IN  IF t.raised
        THEN {Result(t.self, "AutomataException", <<>>, <<>>, t.log)}
        ELSE IF ~(time_diff >= 0)
        THEN {Result(t.self, "AssertionError", <<>>, <<>>, t.log)}
        ELSE {Result(r.self, r.out, <<>>, <<>>, t.log \o r.log)
              : r \in skipTime(t.self, time, TRUE)}

pause(self, time) ==
    LET t == _stateTransfer(self, "pause")
        time_diff == time - self._resume_time
    IN  IF t.raised
        THEN {Result(t.self, "AutomataException", <<>>, <<>>, t.log)}
        ELSE IF ~(time_diff >= 0)
        THEN {Result(t.self, "AssertionError", <<>>, <<>>, t.log)}
        ELSE {Result(r.self, r.out, <<>>, <<>>, t.log \o r.log)
              : r \in skipTime(t.self, time_diff, TRUE)}

startResolving(self) ==
    LET t == _stateTransfer(self, "start_resolving")
    IN  {Result(t.self, IF t.raised THEN "AutomataException" ELSE "ok", <<>>, <<>>, t.log)}

endResolving(self) ==
    LET t == _stateTransfer(self, "end_resolving")
    IN  {Result(t.self, IF t.raised THEN "AutomataException" ELSE "ok", <<>>, <<>>, t.log)}

\* ---------------------------------------------------------------- events
\* def_list(x, default): the default stands in for an argument left None.
def_list(x, default) == IF x = None THEN default ELSE x[1]

\* A time is the quotient diff / speed of a distance and a positive speed,
\* kept as the pair of the two.
Time(diff, speed) == <<diff, speed>>
IsZero(t) == t[1] = 0
Earlier(t, u) == t[1] * u[2] < u[1] * t[2]

\* Mutant of _skip_cond: a checkpoint at the object's position is never skipped.
skip_cond_strict(c_points, cp_idx, pos, skip_immediate) ==
    c_points[cp_idx + 1][2] < pos

\* _skip_cond of nextEvents; cp_idx is Python's 0-based index into c_points.
_skip_cond(c_points, cp_idx, pos, skip_immediate) ==
    LET cp_pos == c_points[cp_idx + 1][2]
    IN  IF skip_immediate THEN cp_pos <= pos ELSE cp_pos < pos

\* Mutant of advance: the cursor moves on by one checkpoint at most.
RECURSIVE advance_once(_, _, _, _)
advance_once(c_points, cp_idx, pos, skip_immediate) ==
    IF cp_idx < Len(c_points) /\ _skip_cond(c_points, cp_idx, pos, skip_immediate)
    THEN cp_idx + 1
    ELSE cp_idx

\* The while loop of nextEvents: the cursor after it.
RECURSIVE advance(_, _, _, _)
advance(c_points, cp_idx, pos, skip_immediate) ==
    IF cp_idx < Len(c_points) /\ _skip_cond(c_points, cp_idx, pos, skip_immediate)
    THEN advance(c_points, cp_idx + 1, pos, skip_immediate)
    ELSE cp_idx

\* Mutant of eventFor: past the last checkpoint the end event is appended
\* whatever skip_immediate and the position are.
eventFor_endAlways(self, c_points, cp_idx, obj_id, pos, skip_immediate) ==
    IF cp_idx < Len(c_points)
    THEN <<(<<self.objects[obj_id], c_points[cp_idx + 1][1],
              Time(c_points[cp_idx + 1][2] - pos, self.speed)>>)>>
    ELSE <<(<<self.objects[obj_id], conv_end, Time(length - pos, self.speed)>>)>>

\* The events appended for one object once the cursor stands at cp_idx.
eventFor(self, c_points, cp_idx, obj_id, pos, skip_immediate) ==
    IF cp_idx < Len(c_points)
    THEN <<(<<self.objects[obj_id], c_points[cp_idx + 1][1],
              Time(c_points[cp_idx + 1][2] - pos, self.speed)>>)>>
    ELSE IF (~skip_immediate) \/ pos < length
    THEN <<(<<self.objects[obj_id], conv_end, Time(length - pos, self.speed)>>)>>
    ELSE <<>>

\* The for loop of nextEvents from the i-th selected object on: how it ends
\* and the events it has appended by then.
RECURSIVE eventsLoop(_, _, _, _, _, _, _)
eventsLoop(self, obj_positions, c_points, skip_immediate, i, cp_idx, events) ==
    IF i > Len(obj_positions)
    THEN [out |-> "ok", events |-> events]
    ELSE LET obj_id == obj_positions[i][1]
             pos == obj_positions[i][2]
         IN  IF ~(pos >= 0 /\ pos <= length)
             THEN [out |-> "AssertionError", events |-> events]
             ELSE LET idx == advance(c_points, cp_idx, pos, skip_immediate)
                  IN  IF obj_id \notin DOMAIN self.objects
                      THEN [out |-> "KeyError", events |-> events]
                      ELSE eventsLoop(self, obj_positions, c_points, skip_immediate,
                                      i + 1, idx,
                                      events \o eventFor(self, c_points, idx, obj_id,
                                                         pos, skip_immediate))

\* Mutant of sortByTime: an event goes before the events of its own time.
RECURSIVE sortByTime_tiesReversed(_)
sortByTime_tiesReversed(events) ==
    IF events = <<>>
    THEN <<>>
    ELSE LET n == Len(events)
             e == events[n]
             front == sortByTime_tiesReversed(SubSeq(events, 1, n - 1))
             k == Cardinality({j \in 1..(n - 1) : Earlier(front[j][3], e[3])})
         IN  SubSeq(front, 1, k) \o <<e>> \o SubSeq(front, k + 1, n - 1)

\* events.sort(key = time): a stable sort, so events of one time keep the
\* order in which they were appended.
RECURSIVE sortByTime(_)
sortByTime(events) ==
    IF events = <<>>
    THEN <<>>
    ELSE LET n == Len(events)
             e == events[n]
             front == sortByTime(SubSeq(events, 1, n - 1))
             k == Cardinality({j \in 1..(n - 1) : ~Earlier(e[3], front[j][3])})
         IN  SubSeq(front, 1, k) \o <<e>> \o SubSeq(front, k + 1, n - 1)

\* Mutant of nextEvents: a speed of 0 is not returned from at once.
nextEvents_idleComputes(self, obj, cps, skip_immediate) ==
    LET objs == def_list(obj, DOMAIN self.objects)
        obj_positions == SelectSeq(self.object_positions, LAMBDA e : e[1] \in objs)
        cpsel == def_list(cps, CpIds)
        c_points == SelectSeq(checkpoints, LAMBDA c : c[1] \in cpsel)
        run == eventsLoop(self, obj_positions, c_points, skip_immediate, 1, 0, <<>>)
    IN  IF run.out = "ok"
        THEN {Result(self, "ok", <<sortByTime(run.events)>>, <<>>, <<>>)}
        ELSE {Result(self, run.out, <<>>, <<>>, <<>>)}

nextEvents(self, obj, cps, skip_immediate) ==
    IF self.speed = 0
    THEN {Result(self, "ok", <<(<<>>)>>, <<>>, <<>>)}
    ELSE LET objs == def_list(obj, DOMAIN self.objects)
             obj_positions == SelectSeq(self.object_positions, LAMBDA e : e[1] \in objs)
             cpsel == def_list(cps, CpIds)
             c_points == SelectSeq(checkpoints, LAMBDA c : c[1] \in cpsel)
             run == eventsLoop(self, obj_positions, c_points, skip_immediate, 1, 0, <<>>)
         IN  IF run.out = "ok"
             THEN {Result(self, "ok", <<sortByTime(run.events)>>, <<>>, <<>>)}
             ELSE {Result(self, run.out, <<>>, <<>>, <<>>)}

\* Mutant of immediateEvents: nextEvents is left to skip the immediate events.
immediateEvents_skipsImmediate(self, obj, cps) ==
    {IF r.out = "ok"
     THEN Result(r.self, "ok", <<SelectSeq(r.ret[1], LAMBDA ev : IsZero(ev[3]))>>, <<>>, <<>>)
     ELSE r
     : r \in nextEvents(self, obj, cps, TRUE)}

immediateEvents(self, obj, cps) ==
    {IF r.out = "ok"
     THEN Result(r.self, "ok", <<SelectSeq(r.ret[1], LAMBDA ev : IsZero(ev[3]))>>, <<>>, <<>>)
     ELSE r
     : r \in nextEvents(self, obj, cps, FALSE)}

\* ------------------------------------------------------------- the model
VARIABLES
    _state,            \* ConveyorModel._state
    _resume_time,      \* ConveyorModel._resume_time
    speed,             \* ConveyorModel.speed
    objects,           \* ConveyorModel.objects: object id -> payload
    object_positions,  \* ConveyorModel.object_positions: list of <<object id, position>>
    last,              \* observer: the most recent call and how it ended
    allOk,             \* observer: no call so far has raised
    placed             \* observer: <<"put", id>> right after putObject(id, ..) returned,
                       \* <<"removed", id>> right after the removeObject(id) that
                       \* followed it, <<"no">> otherwise

vars == <<length, max_speed, checkpoints,
          _state, _resume_time, speed, objects, object_positions, last, allOk, placed>>
model == <<_state, _resume_time, speed, objects, object_positions>>

this ==
    [_state |-> _state, _resume_time |-> _resume_time, speed |-> speed,
     objects |-> objects, object_positions |-> object_positions]

NoCall == [op |-> "init", out |-> "ok"]

\* The constructor's assertions on its arguments (lines 58-70).
Constructs(args) ==
    /\ args.length > 0
    /\ args.max_speed > 0
    /\ \A i \in 1..Len(args.checkpoints) :
          /\ args.checkpoints[i][2] >= 0
          /\ args.checkpoints[i][2] < args.length
          /\ i > 1 => args.checkpoints[i - 1][2] < args.checkpoints[i][2]

\* The model as ConveyorModel(args) leaves it.
Constructed(args) ==
    /\ Constructs(args)
    /\ length = args.length
    /\ max_speed = args.max_speed
    /\ checkpoints = args.checkpoints
    /\ _state = init._state
    /\ _resume_time = init._resume_time
    /\ speed = init.speed
    /\ objects = init.objects
    /\ object_positions = init.object_positions
    /\ last = NoCall
    /\ allOk = TRUE
    /\ placed = <<"no">>

Init == Constructed(Main)

InitA == Constructed(ScenarioA)

\* The positions the model follows: up to one grid step beyond either end.
Followed(ls) == \A i \in 1..Len(ls) : ls[i][2] >= PosMin /\ ls[i][2] <= PosMax

\* The call `op` ends as the result r says.
Returns(r, op) ==
    /\ Followed(r.self.object_positions)
    /\ UNCHANGED <<length, max_speed, checkpoints>>
    /\ _state' = r.self._state
    /\ _resume_time' = r.self._resume_time
    /\ speed' = r.self.speed
    /\ objects' = r.self.objects
    /\ object_positions' = r.self.object_positions
    /\ last' = [op |-> op, out |-> r.out]
    /\ allOk' = (allOk /\ r.out = "ok")

SetSpeed ==
    /\ \E v \in SpeedArgs : \E r \in setSpeed(this, v) : Returns(r, "setSpeed")
    /\ placed' = <<"no">>

PutObject ==
    \E obj_id \in ObjIds, pos \in PosArgs :
        \E r \in putObject(this, obj_id, Payload(obj_id), pos) :
            /\ Returns(r, "putObject")
            /\ placed' = IF r.out = "ok" THEN <<"put", obj_id>> ELSE <<"no">>

RemoveObject ==
    \E obj_id \in ObjIds : \E r \in removeObject(this, obj_id) :
        /\ Returns(r, "removeObject")
        /\ placed' = IF r.out = "ok" /\ placed = <<"put", obj_id>>
                     THEN <<"removed", obj_id>>
                     ELSE <<"no">>

SkipTime ==
    /\ \E time \in SkipArgs, clean_ends \in BOOLEAN :
          \E r \in skipTime(this, time, clean_ends) : Returns(r, "skipTime")
    /\ placed' = <<"no">>

Resume ==
    /\ \E time \in TimeArgs : \E r \in resume(this, time) : Returns(r, "resume")
    /\ placed' = <<"no">>

Pause ==
    /\ \E time \in TimeArgs : \E r \in pause(this, time) : Returns(r, "pause")
    /\ placed' = <<"no">>

StartResolving ==
    /\ \E r \in startResolving(this) : Returns(r, "startResolving")
    /\ placed' = <<"no">>

EndResolving ==
    /\ \E r \in endResolving(this) : Returns(r, "endResolving")
    /\ placed' = <<"no">>

NextEvents ==
    /\ \E obj \in ObjFilterArgs, cps \in CpFilterArgs, skip_immediate \in BOOLEAN :
          \E r \in nextEvents(this, obj, cps, skip_immediate) : Returns(r, "nextEvents")
    /\ placed' = <<"no">>

ImmediateEvents ==
    /\ \E obj \in ObjFilterArgs, cps \in CpFilterArgs :
          \E r \in immediateEvents(this, obj, cps) : Returns(r, "immediateEvents")
    /\ placed' = <<"no">>

Next ==
    \/ SetSpeed
    \/ PutObject
    \/ RemoveObject
    \/ SkipTime
    \/ Resume
    \/ Pause
    \/ StartResolving
    \/ EndResolving

\* The calls above change the model; with the two queries, which change
\* nothing, these are all the calls.
NextQ ==
    \/ Next
    \/ NextEvents
    \/ ImmediateEvents

Spec == Init /\ [][Next]_vars

SpecQ == Init /\ [][NextQ]_vars

\* All the calls on the conveyor of Scenario A.
SpecA == InitA /\ [][NextQ]_vars

\* ------------------------------------------------------------- claims
IsSorted(ls) == \A i, j \in 1..Len(ls) : i < j => ls[i][2] <= ls[j][2]
NoDuplicates(ls) == \A i, j \in 1..Len(ls) : i # j => ls[i][2] # ls[j][2]
Ids(ls) == {ls[i][1] : i \in 1..Len(ls)}
InRange(ls) == \A i \in 1..Len(ls) : ls[i][2] >= 0 /\ ls[i][2] <= length
Occupied(ls, pos) == \E i \in 1..Len(ls) : ls[i][2] = pos

\* C1: in every state reached by successful public operations, object_positions
\* is sorted ascending by position and no two entries have the same position.
\* (Stated for the states whose positions all lie on the conveyor, so that a
\* violation owes nothing to an object placed or moved off it.)
C1_SortedNoDuplicates ==
    allOk /\ InRange(object_positions)
        => IsSorted(object_positions) /\ NoDuplicates(object_positions)

\* C2: after every public operation that returns successfully, the ids in
\* object_positions are exactly the keys of objects and each id occurs once.
C2_IdsInSync ==
    last.out = "ok" =>
        /\ Ids(object_positions) = DOMAIN objects
        /\ Len(object_positions) = Cardinality(DOMAIN objects)

C2_Witness ==
    /\ last.op = "skipTime"
    /\ last.out = "ok"
    /\ Len(object_positions) = 1
    /\ allOk

\* The transition table as the specification gives it.
TransitionTable ==
    {<<"pristine", "resume", "moving">>, <<"pristine", "change", "dirty">>,
     <<"moving", "pause", "pristine">>,
     <<"dirty", "change", "dirty">>, <<"dirty", "start_resolving", "resolving">>,
     <<"resolving", "change", "resolving">>, <<"resolving", "end_resolving", "resolved">>,
     <<"resolved", "resume", "moving">>}

\* The transfers every call made in the current state attempts, with the
\* lifecycle state and the outcome it ends in.
Runs(results) == {<<r.log, r.self._state, r.out>> : r \in results}
TransferRuns ==
    Runs(UNION {setSpeed(this, v) : v \in SpeedArgs})
    \cup Runs(UNION {putObject(this, i, Payload(i), p) : i \in ObjIds, p \in PosArgs})
    \cup Runs(UNION {removeObject(this, i) : i \in ObjIds})
    \cup Runs(UNION {skipTime(this, t, c) : t \in SkipArgs, c \in BOOLEAN})
    \cup Runs(UNION {resume(this, t) : t \in TimeArgs})
    \cup Runs(UNION {pause(this, t) : t \in TimeArgs})
    \cup Runs(startResolving(this))
    \cup Runs(endResolving(this))

\* C3: the lifecycle state starts as pristine and every transfer a call attempts
\* either follows the transition table or, for a pair the table does not list,
\* raises AutomataException and leaves the lifecycle state as it was; the
\* lifecycle state changes in no other way.
C3_Lifecycle ==
    /\ last.op = "init" => _state = "pristine"
    /\ \A run \in TransferRuns :
          LET log == run[1]
          IN  /\ \A k \in 1..Len(log) :
                    /\ log[k].from = IF k = 1 THEN _state ELSE log[k - 1].to
                    /\ IF \E e \in TransitionTable : e[1] = log[k].from /\ e[2] = log[k].action
                       THEN /\ ~log[k].raised
                            /\ <<log[k].from, log[k].action, log[k].to>> \in TransitionTable
                       ELSE /\ log[k].raised
                            /\ log[k].to = log[k].from
                            /\ k = Len(log)
                            /\ run[3] = "AutomataException"
              /\ run[2] = IF log = <<>> THEN _state ELSE log[Len(log)].to

C3_Witness ==
    /\ _state = "resolved"
    /\ last.op = "startResolving"
    /\ last.out = "AutomataException"

\* The failures the specification calls protocol violations: an illegal
\* transfer, a failed assertion, an absent object id.
ProtocolViolations == {"AutomataException", "AssertionError", "TypeError", "KeyError"}

Outs(results) == {r.out : r \in results}

\* C4 as stated: every setSpeed, putObject, removeObject or skipTime call made
\* while the model is moving fails with a protocol violation.
C4_Original ==
    _state = "moving" =>
        /\ \A v \in SpeedArgs : Outs(setSpeed(this, v)) \subseteq ProtocolViolations
        /\ \A i \in ObjIds, p \in PosArgs :
              Outs(putObject(this, i, Payload(i), p)) \subseteq ProtocolViolations
        /\ \A i \in ObjIds : Outs(removeObject(this, i)) \subseteq ProtocolViolations
        /\ \A t \in SkipArgs, c \in BOOLEAN :
              Outs(skipTime(this, t, c)) \subseteq ProtocolViolations

\* C4 amended: while the model is moving, setSpeed(v) with v other than the
\* current speed, putObject, removeObject and skipTime(t) with t # 0 never
\* return successfully: they fail with a protocol violation, except that a
\* putObject with a fresh id onto an occupied position fails with a collision;
\* setSpeed(current speed) and skipTime(0) succeed and change nothing.
C4_Amended ==
    _state = "moving" =>
        /\ \A v \in SpeedArgs :
              IF v = speed
              THEN \A r \in setSpeed(this, v) : r.out = "ok" /\ r.self = this
              ELSE Outs(setSpeed(this, v)) \subseteq ProtocolViolations
        /\ \A i \in ObjIds, p \in PosArgs :
              \A r \in putObject(this, i, Payload(i), p) :
                  \/ r.out \in ProtocolViolations
                  \/ /\ r.out = "CollisionException"
                     /\ i \notin DOMAIN objects
                     /\ \E q \in Round(p) : Occupied(object_positions, q)
        /\ \A i \in ObjIds : Outs(removeObject(this, i)) \subseteq ProtocolViolations
        /\ \A t \in SkipArgs, c \in BOOLEAN :
              IF t = 0
              THEN \A r \in skipTime(this, t, c) : r.out = "ok" /\ r.self = this
              ELSE Outs(skipTime(this, t, c)) \subseteq ProtocolViolations

C4_Witness ==
    /\ _state = "moving"
    /\ last.op \in {"setSpeed", "putObject", "removeObject", "skipTime"}
    /\ last.out = "AutomataException"

\* C5: a public operation that fails leaves the lifecycle state, the speed, the
\* resume marker, objects and object_positions exactly as they were.
C5_NoPartialMutation ==
    [][last'.out # "ok" => UNCHANGED model]_vars

\* C6: putObject with a fresh id whose rounded position is the position of an
\* object on the conveyor fails with a collision carrying the new payload, the
\* payload of an object at that position, the position and the model id, and
\* leaves the model as it was; an object is never placed on an occupied position.
C6_Collision ==
    \A i \in ObjIds \ DOMAIN objects, p \in PosArgs :
        \A r \in putObject(this, i, Payload(i), p) :
            /\ (\A q \in Round(p) : Occupied(object_positions, q))
                  => r.out = "CollisionException"
            /\ r.out = "CollisionException" =>
                  /\ r.self = this
                  /\ r.err[3] \in Round(p)
                  /\ \E k \in 1..Len(object_positions) :
                        r.err = <<Payload(i), objects[object_positions[k][1]],
                                  object_positions[k][2], model_id>>
            /\ r.out # "CollisionException" =>
                  \E k \in 1..Len(r.self.object_positions) :
                      /\ r.self.object_positions[k][1] = i
                      /\ r.self.object_positions[k][2] \in Round(p)
                      /\ ~Occupied(object_positions, r.self.object_positions[k][2])

C6_Witness ==
    /\ last.op = "putObject"
    /\ last.out = "CollisionException"
    /\ Len(object_positions) = 1

\* Every entry displaced by exactly d, the entries off the conveyor removed.
ExactlyDisplaced(ls, d) ==
    SelectSeq([k \in 1..Len(ls) |-> <<ls[k][1], ls[k][2] + d>>],
              LAMBDA e : e[2] >= 0 /\ e[2] <= length)

\* C7 as stated: pause(t) after resume(t0) at speed s displaces every object
\* by exactly s * (t - t0), removing the objects that leave [0, length], and
\* fails if t < t0.  (Stated for the states reached by successful calls whose
\* positions all lie on the conveyor.)
C7_Original ==
    allOk /\ _state = "moving" /\ InRange(object_positions) =>
        \A t \in TimeArgs : \A r \in pause(this, t) :
            IF t < _resume_time
            THEN r.out # "ok"
            ELSE /\ r.out = "ok"
                 /\ r.self.object_positions =
                        ExactlyDisplaced(object_positions, speed * (t - _resume_time))

\* The list `after` is what the clean-ends rule leaves of `before` displaced by
\* d and rounded: entries a+1..b of it, the entries before them dropped as
\* below 0 and the entries after them dropped as above length.
DisplacedRounded(before, after, d) ==
    \E a \in 0..Len(before) : \E b \in a..Len(before) :
        /\ Len(after) = b - a
        /\ \A k \in 1..(b - a) :
              /\ after[k][1] = before[a + k][1]
              /\ after[k][2] \in Round(before[a + k][2] + d)
        /\ \A k \in 1..a : \E q \in Round(before[k][2] + d) : q < 0
        /\ \A k \in (b + 1)..Len(before) : \E q \in Round(before[k][2] + d) : q > length
        /\ b > a => after[1][2] >= 0 /\ after[b - a][2] <= length

\* C7 amended: pause(t) after resume(t0) at speed s fails if t < t0, changes
\* no object if t = t0, and for t > t0 moves every object to its position plus
\* s * (t - t0) rounded to the position grid (so by exactly s * (t - t0) when
\* that is a whole number of grid steps) and drops the objects at the low end
\* below 0 and at the high end above length together with their payloads.
C7_Amended ==
    _state = "moving" =>
        \A t \in TimeArgs : \A r \in pause(this, t) :
            IF t < _resume_time
            THEN r.out = "AssertionError"
            ELSE IF t = _resume_time
            THEN /\ r.out = "ok"
                 /\ r.self.object_positions = object_positions
                 /\ r.self.objects = objects
                 /\ r.self.speed = speed
            ELSE /\ r.out = "ok"
                 /\ DisplacedRounded(object_positions, r.self.object_positions,
                                     speed * (t - _resume_time))
                 /\ (speed * (t - _resume_time)) % SubRes = 0 /\ IsSorted(object_positions)
                       => r.self.object_positions =
                             ExactlyDisplaced(object_positions, speed * (t - _resume_time))
                 /\ r.self.objects =
                       [i \in Ids(r.self.object_positions) |-> objects[i]]
                 /\ r.self.speed = speed

C7_Witness ==
    /\ last.op = "pause"
    /\ last.out = "ok"
    /\ _state = "dirty"
    /\ speed > 0
    /\ Len(object_positions) = MaxObjs
    /\ allOk

\* C8 as stated: after every successful pause the lifecycle state is pristine.
C8_Original ==
    last.op = "pause" /\ last.out = "ok" => _state = "pristine"

\* C8 amended: a successful pause(t) leaves the lifecycle state pristine when t
\* is the recorded resume time and dirty when t is after it (skipTime of a
\* non-zero time fires the change action).
C8_Amended ==
    _state = "moving" =>
        \A t \in TimeArgs : \A r \in pause(this, t) :
            r.out = "ok" =>
                /\ t >= _resume_time
                /\ r.self._state = IF t = _resume_time THEN "pristine" ELSE "dirty"

C8_Witness ==
    /\ last.op = "pause"
    /\ last.out = "ok"
    /\ _state = "dirty"

\* C9: whenever the model is not moving after successful public operations,
\* every entry of object_positions has its position in [0, length].
C9_SettledInRange ==
    allOk /\ _state # "moving" => InRange(object_positions)

\* C10: a successful putObject(id, payload, pos) immediately followed by a
\* successful removeObject(id) returns payload and restores objects and
\* object_positions to their values before the putObject.
C10_RoundTrip ==
    \A i \in ObjIds, p \in PosArgs :
        \A r \in putObject(this, i, Payload(i), p) :
            r.out = "ok" =>
                \A u \in removeObject(r.self, i) :
                    u.out = "ok" =>
                        /\ u.ret = <<Payload(i)>>
                        /\ u.self.objects = objects
                        /\ u.self.object_positions = object_positions

C10_Witness ==
    /\ placed[1] = "removed"
    /\ last.out = "ok"
    /\ Len(object_positions) > 0

\* C11: skipTime(0) returns 0 and is a no-op in every lifecycle state: it fires
\* no automaton action and leaves the state, the speed, objects and
\* object_positions as they were.
C11_SkipZero ==
    \A c \in BOOLEAN : \A r \in skipTime(this, 0, c) :
        /\ r.out = "ok"
        /\ r.ret = <<0>>
        /\ r.log = <<>>
        /\ r.self = this

C11_Witness ==
    /\ _state \in {"moving", "resolved"}
    /\ last.op = "skipTime"
    /\ last.out = "ok"
    /\ Len(object_positions) > 0
    /\ speed > 0

\* C12: setSpeed(v) with 0 <= v <= max_speed and v the current speed changes
\* nothing and fires no action, in every lifecycle state; with v another speed
\* it fires change and, the change being legal, sets speed to v; and in every
\* reachable state 0 <= speed <= max_speed.
C12_SetSpeed ==
    /\ speed >= 0 /\ speed <= max_speed
    /\ \A v \in SpeedArgs : \A r \in setSpeed(this, v) :
          IF ~(v >= 0 /\ v <= max_speed)
          THEN r.out = "AssertionError" /\ r.self = this
          ELSE IF v = speed
          THEN r.out = "ok" /\ r.log = <<>> /\ r.self = this
          ELSE /\ Len(r.log) = 1
               /\ r.log[1].action = "change"
               /\ IF r.log[1].raised
                  THEN r.out = "AutomataException" /\ r.self = this
                  ELSE /\ r.out = "ok"
                       /\ r.self = [this EXCEPT !.speed = v, !._state = r.log[1].to]

C12_Witness ==
    /\ last.op = "setSpeed"
    /\ last.out = "ok"
    /\ speed = max_speed
    /\ _state = "resolving"

\* The claims on the events are stated of the states that a call of nextEvents
\* (of immediateEvents, for C18) has just left, and there of every filter the
\* call can be given.  The queries can be called in every state and change
\* nothing, so these are all the states of the model.

\* C14: nextEvents returns the empty list whenever speed = 0, whatever objects
\* are on the segment (in range or not), for every object filter, checkpoint
\* filter and value of skip_immediate; and at any speed it leaves the state,
\* the speed, objects and object_positions as they were.
C14_Idle ==
    last.op = "nextEvents" =>
        \A obj \in ObjFilters, cps \in CpFilters, skip_immediate \in BOOLEAN :
            \A r \in nextEvents(this, obj, cps, skip_immediate) :
                /\ r.self = this
                /\ r.log = <<>>
                /\ speed = 0 => r.out = "ok" /\ r.ret = <<(<<>>)>>

C14_Witness ==
    /\ last.op = "nextEvents"
    /\ last.out = "ok"
    /\ speed = 0
    /\ Len(object_positions) = MaxObjs
    /\ ~InRange(object_positions)

\* The entries of object_positions and the checkpoints that the filters select.
Selected(obj) ==
    {i \in 1..Len(object_positions) :
        object_positions[i][1] \in def_list(obj, DOMAIN objects)}
SelectedCps(cps) ==
    {i \in 1..Len(checkpoints) : checkpoints[i][1] \in def_list(cps, CpIds)}

\* The independent search for one position: the selected checkpoint of the
\* smallest position beyond pos (at or beyond it when skip_immediate is
\* false), or the end of the segment when there is none.
Remaining(cps, pos, skip_immediate) ==
    {i \in SelectedCps(cps) :
        IF skip_immediate THEN checkpoints[i][2] > pos ELSE checkpoints[i][2] >= pos}
Stop(cps, pos, skip_immediate) ==
    LET rem == Remaining(cps, pos, skip_immediate)
    IN  IF rem = {}
        THEN <<conv_end, length>>
        ELSE checkpoints[CHOOSE i \in rem :
                            \A j \in rem : checkpoints[i][2] <= checkpoints[j][2]]
Searched(obj, cps, skip_immediate) ==
    {LET pos == object_positions[i][2]
         stop == Stop(cps, pos, skip_immediate)
     IN  <<objects[object_positions[i][1]], stop[1], Time(stop[2] - pos, speed)>>
     : i \in {k \in Selected(obj) :
                ~(skip_immediate /\ object_positions[k][2] = length
                    /\ Remaining(cps, length, skip_immediate) = {})}}
Range(ls) == {ls[i] : i \in 1..Len(ls)}

\* C16: for speed > 0 and object_positions sorted, for every object filter,
\* checkpoint filter and value of skip_immediate, the events that nextEvents
\* returns are those of the independent search for each selected object: the
\* nearest selected checkpoint beyond it, or the end, at the time
\* (event position - object position) / speed.
C16_SharedCursor ==
    last.op = "nextEvents" /\ speed > 0 /\ IsSorted(object_positions) /\ Ids(object_positions) \subseteq DOMAIN objects =>
        \A obj \in ObjFilters, cps \in CpFilters, skip_immediate \in BOOLEAN :
            \A r \in nextEvents(this, obj, cps, skip_immediate) :
                r.out = "ok" => Range(r.ret[1]) = Searched(obj, cps, skip_immediate)

\* nextEvents has returned where the cursor had to pass both checkpoints, the
\* first for one object and the second for a later one.
C16_Witness ==
    /\ last.op = "nextEvents"
    /\ last.out = "ok"
    /\ speed > 0
    /\ Len(object_positions) = 2
    /\ object_positions[1][2] = checkpoints[1][2]
    /\ object_positions[2][2] = length

\* The selected entries of object_positions whose payload an event carries.
Owners(obj, ev) == {k \in Selected(obj) : objects[object_positions[k][1]] = ev[1]}
EventsOf(events, k) ==
    {i \in 1..Len(events) : events[i][1] = objects[object_positions[k][1]]}

\* C17: for speed > 0 the list nextEvents returns has at most one event per
\* selected object and none for any other, is sorted ascending by time, and,
\* object_positions being sorted, events of equal time come in ascending
\* order of their objects' positions.
C17_OrderedEvents ==
    last.op = "nextEvents" /\ speed > 0 /\ Ids(object_positions) \subseteq DOMAIN objects =>
        \A obj \in ObjFilters, cps \in CpFilters, skip_immediate \in BOOLEAN :
            \A r \in nextEvents(this, obj, cps, skip_immediate) :
                r.out = "ok" =>
                    LET events == r.ret[1]
                    IN  /\ \A k \in Selected(obj) : Cardinality(EventsOf(events, k)) <= 1
                        /\ \A i \in 1..Len(events) : Owners(obj, events[i]) # {}
                        /\ \A i, j \in 1..Len(events) :
                              i < j => ~Earlier(events[j][3], events[i][3])
                        /\ IsSorted(object_positions) =>
                              \A i, j \in 1..Len(events) :
                                 i < j /\ ~Earlier(events[i][3], events[j][3]) =>
                                    \A a \in Owners(obj, events[i]), b \in Owners(obj, events[j]) :
                                       object_positions[a][2] <= object_positions[b][2]

\* nextEvents has returned with two objects at different positions that some
\* checkpoint filter gives events of the same time.
C17_Witness ==
    /\ last.op = "nextEvents"
    /\ last.out = "ok"
    /\ speed > 0
    /\ Len(object_positions) = 2
    /\ object_positions[1][2] < object_positions[2][2]
    /\ \E cps \in CpFilters : \E r \in nextEvents(this, None, cps, TRUE) :
          /\ r.out = "ok"
          /\ Len(r.ret[1]) = 2
          /\ ~Earlier(r.ret[1][1][3], r.ret[1][2][3])

\* The position is that of a selected checkpoint, or it is the end of the
\* segment with no selected checkpoint at or beyond it.
OnStop(cps, pos) ==
    \/ \E i \in SelectedCps(cps) : checkpoints[i][2] = pos
    \/ pos = length /\ Remaining(cps, pos, FALSE) = {}

\* C18: for speed > 0 and object_positions sorted, immediateEvents returns
\* events of time 0 only: exactly one for each selected object that is on a
\* selected checkpoint or on the end, and none for any other object.
C18_Immediate ==
    last.op = "immediateEvents" /\ speed > 0 /\ IsSorted(object_positions) /\ Ids(object_positions) \subseteq DOMAIN objects =>
        \A obj \in ObjFilters, cps \in CpFilters :
            \A r \in immediateEvents(this, obj, cps) :
                r.out = "ok" =>
                    LET events == r.ret[1]
                    IN  /\ \A i \in 1..Len(events) :
                              IsZero(events[i][3]) /\ Owners(obj, events[i]) # {}
                        /\ \A k \in Selected(obj) :
                              Cardinality(EventsOf(events, k)) =
                                 IF OnStop(cps, object_positions[k][2]) THEN 1 ELSE 0

\* immediateEvents has returned with one object on a checkpoint and another
\* on neither a checkpoint nor the end.
C18_Witness ==
    /\ last.op = "immediateEvents"
    /\ last.out = "ok"
    /\ speed > 0
    /\ Len(object_positions) = 2
    /\ object_positions[1][2] = 0
    /\ object_positions[2][2] = checkpoints[1][2]

IsPositive(t) == t[1] * t[2] > 0

\* C19: for speed > 0, an object exactly at length for which no selected
\* checkpoint remains gets no event from nextEvents with skip_immediate true
\* and the end event of time 0 with skip_immediate false; and with
\* skip_immediate true every returned event has a time above 0.
C19_AtEnd ==
    last.op = "nextEvents" /\ speed > 0 /\ Ids(object_positions) \subseteq DOMAIN objects =>
        \A obj \in ObjFilters, cps \in CpFilters, skip_immediate \in BOOLEAN :
            \A r \in nextEvents(this, obj, cps, skip_immediate) :
                r.out = "ok" =>
                    LET events == r.ret[1]
                    IN  /\ skip_immediate => \A i \in 1..Len(events) : IsPositive(events[i][3])
                        /\ \A k \in Selected(obj) :
                              object_positions[k][2] = length
                                 /\ Remaining(cps, length, skip_immediate) = {} =>
                                 IF skip_immediate
                                 THEN EventsOf(events, k) = {}
                                 ELSE \E i \in EventsOf(events, k) :
                                         events[i][2] = conv_end /\ IsZero(events[i][3])

C19_Witness ==
    /\ last.op = "nextEvents"
    /\ last.out = "ok"
    /\ speed > 0
    /\ \E k \in 1..Len(object_positions) : object_positions[k][2] = length
    /\ \E k \in 1..Len(object_positions) : object_positions[k][2] < length

\* C15 as stated: a successful skipTime(t), t # 0, with clean ends displaces
\* every object by exactly speed * t, removes exactly the objects that leave
\* [0, length] and returns speed * t.  (Stated for the states reached by
\* successful calls whose positions all lie on the conveyor.)
C15_Original ==
    allOk /\ InRange(object_positions) /\ IsSorted(object_positions) =>
        \A t \in SkipArgs \ {0} : \A r \in skipTime(this, t, TRUE) :
            r.out = "ok" =>
                /\ r.ret = <<speed * t>>
                /\ r.self.object_positions = ExactlyDisplaced(object_positions, speed * t)

\* C15 amended: a successful skipTime(t), t # 0, with clean ends returns
\* speed * t and moves every object to its position plus speed * t rounded to
\* the position grid (so by exactly speed * t when that is a whole number of
\* grid steps); it drops, with their payloads, the objects at the low end
\* whose rounded position is below 0 and those at the high end whose rounded
\* position is above length, so that, object_positions being sorted, every
\* object left lies in [0, length], one at 0 or at length included.
C15_Amended ==
    \A t \in SkipArgs \ {0} : \A r \in skipTime(this, t, TRUE) :
        r.out = "ok" =>
            /\ r.ret = <<speed * t>>
            /\ DisplacedRounded(object_positions, r.self.object_positions, speed * t)
            /\ r.self.objects = [i \in Ids(r.self.object_positions) |-> objects[i]]
            /\ IsSorted(object_positions) =>
                  /\ InRange(r.self.object_positions)
                  /\ (speed * t) % SubRes = 0 =>
                        r.self.object_positions =
                           ExactlyDisplaced(object_positions, speed * t)

\* skipTime has returned having dropped an object and kept one at an end of
\* the conveyor.
C15_Witness ==
    /\ last.op = "skipTime"
    /\ last.out = "ok"
    /\ speed > 0
    /\ Len(object_positions) = 1
    /\ object_positions[1][2] \in {0, length}
    /\ Cardinality(DOMAIN objects) = 1
    /\ _state = "resolving"

\* What C20 says of one result r of a call of op made in the current state.
Reconciles(op, r) ==
    /\ _state \in {"dirty", "resolving"} /\ op = "resume" => r.out = "AutomataException"
    /\ _state = "dirty" /\ r.self._state # "dirty" =>
          op = "startResolving" /\ r.out = "ok" /\ r.self._state = "resolving"
    /\ _state = "resolving" /\ r.self._state # "resolving" =>
          op = "endResolving" /\ r.out = "ok" /\ r.self._state = "resolved"
    /\ _state = "resolving" /\ op = "startResolving" =>
          r.out = "AutomataException" /\ r.self = this
    /\ _state # "resolving" /\ op = "endResolving" =>
          r.out = "AutomataException" /\ r.self = this
    /\ _state = "resolved" /\ r.out = "ok" /\ r.self # this => op = "resume"
    /\ _state = "resolved" /\ op = "resume" => r.out = "ok" /\ r.self._state = "moving"

\* C20: a dirty model stays dirty until a startResolving succeeds and makes it
\* resolving, a resolving model stays resolving until an endResolving succeeds
\* and makes it resolved, and resume fails in both, so no resume succeeds
\* between the first change and the end of the resolution; startResolving
\* fails while resolving, endResolving fails unless resolving, and in a
\* resolved model every successful call but resume leaves the model as it was.
\* Stated of every call that can be made in the current state; of a pristine
\* or moving model it says only that endResolving fails.
C20_Reconciliation ==
    /\ \A r \in startResolving(this) : Reconciles("startResolving", r)
    /\ \A r \in endResolving(this) : Reconciles("endResolving", r)
    /\ _state \in {"dirty", "resolving", "resolved"} =>
          /\ \A v \in SpeedArgs : \A r \in setSpeed(this, v) : Reconciles("setSpeed", r)
          /\ \A i \in ObjIds, p \in PosArgs :
                \A r \in putObject(this, i, Payload(i), p) : Reconciles("putObject", r)
          /\ \A i \in ObjIds : \A r \in removeObject(this, i) : Reconciles("removeObject", r)
          /\ \A t \in SkipArgs, c \in BOOLEAN :
                \A r \in skipTime(this, t, c) : Reconciles("skipTime", r)
          /\ \A t \in TimeArgs : \A r \in resume(this, t) : Reconciles("resume", r)
          /\ \A t \in TimeArgs : \A r \in pause(this, t) : Reconciles("pause", r)
          /\ \A obj \in ObjFilterArgs, cps \in CpFilterArgs, si \in BOOLEAN :
                \A r \in nextEvents(this, obj, cps, si) : Reconciles("nextEvents", r)
          /\ \A obj \in ObjFilterArgs, cps \in CpFilterArgs :
                \A r \in immediateEvents(this, obj, cps) : Reconciles("immediateEvents", r)

\* A resume has failed in a resolving model that holds objects.
C20_Witness ==
    /\ _state = "resolving"
    /\ last.op = "resume"
    /\ last.out = "AutomataException"
    /\ Len(object_positions) > 0

\* The time is n time units.
Lasts(t, n) == t[1] = n * t[2]
\* The call returned the events evs, in this order, each <<payload, stop, n>>.
Yields(results, evs) ==
    \A r \in results :
        /\ r.out = "ok"
        /\ Len(r.ret[1]) = Len(evs)
        /\ \A i \in 1..Len(evs) :
              /\ r.ret[1][i][1] = evs[i][1]
              /\ r.ret[1][i][2] = evs[i][2]
              /\ Lasts(r.ret[1][i][3], evs[i][3])

\* C13: Scenario A.  On the conveyor of length 10 with checkpoint A at 3 and
\* B at 7, at speed 1 with the one object X at position 0, nextEvents() returns
\* exactly [(X, A, 3)]; a skipTime(3) that succeeds leaves X at position 3, and
\* then nextEvents() returns exactly [(X, B, 4)] and immediateEvents() returns
\* exactly [(X, A, 0)].
C13_ScenarioA ==
    \A X \in ObjIds :
        LET A == checkpoints[1][1]
            B == checkpoints[2][1]
        IN  IsScenarioA /\ speed = SubRes /\ objects = (X :> Payload(X))
              /\ object_positions = <<(<<X, 0>>)>> =>
                /\ Yields(nextEvents(this, None, None, TRUE), <<(<<Payload(X), A, 3>>)>>)
                /\ \A c \in BOOLEAN : \A r \in skipTime(this, 3, c) :
                      r.out = "ok" =>
                         /\ r.self.object_positions = <<(<<X, 3 * SubRes>>)>>
                         /\ Yields(nextEvents(r.self, None, None, TRUE),
                                   <<(<<Payload(X), B, 4>>)>>)
                         /\ Yields(immediateEvents(r.self, None, None),
                                   <<(<<Payload(X), A, 0>>)>>)

\* Scenario A has been played: at speed 1, X put at 0 is at 3, on checkpoint A,
\* after a skipTime that succeeded.
C13_Witness ==
    /\ IsScenarioA
    /\ last.op = "skipTime"
    /\ last.out = "ok"
    /\ speed = SubRes
    /\ allOk
    /\ object_positions = <<(<<1, checkpoints[1][2]>>)>>

====
